---- MODULE Spec2Model ----
(***************************************************************************)
(* Model of tensap/tools/utils.py: fast_intersect, fast_setdiff,           *)
(* integer2baseb and baseb2integer.                                        *)
(*                                                                         *)
(* The four functions are pure array transformations.  The state holds the *)
(* caller's argument arrays (a, b for the set operations; i, base, d for   *)
(* integer2baseb; I0, base for baseb2integer), the name of the last call   *)
(* (op) and what it produced (out).  One action per function call.         *)
(*                                                                         *)
(* A one-dimensional ndarray is a sequence of integers, a two-dimensional  *)
(* ndarray is a sequence of rows.  An optional argument is None (the empty *)
(* sequence) or a one-element sequence holding the value.                  *)
(***************************************************************************)
EXTENDS Integers, Sequences, FiniteSets, TLC

VARIABLES a, b, i, base, d, I0, op, out

vars == <<a, b, i, base, d, I0, op, out>>

-----------------------------------------------------------------------------
(* Bounds of the explored input space *)

MaxLen == 3        \* longest array given to the set operations
MaxElem == 2       \* set-operation arrays hold values in 0..MaxElem
MaxK == 2          \* most integers encoded in one integer2baseb call
MaxInt == 9        \* integers to encode are drawn from -1..MaxInt
MaxBase == 3       \* bases are drawn from 0..MaxBase
MaxDim == 2        \* explicit dimensions are drawn from 1..MaxDim
MaxCells == 4      \* a digit matrix given to baseb2integer has <= MaxCells entries
MaxLogInt == 125   \* integers of the derived-dimension exploration: 0..MaxLogInt
MaxLogBase == 5    \* bases of the derived-dimension exploration: 2..MaxLogBase

-----------------------------------------------------------------------------
(* Generic helpers *)

None == <<>>

Range(s) == {s[k] : k \in 1..Len(s)}

NoDup(s) == \A j, k \in 1..Len(s) : j # k => s[j] # s[k]

SeqsUpTo(S, n) == UNION {[1..k -> S] : k \in 0..n}

RECURSIVE Pow(_, _)
Pow(x, e) == IF e <= 0 THEN 1 ELSE x * Pow(x, e - 1)

RECURSIVE SeqMax(_)
SeqMax(s) ==
    IF Len(s) = 1 THEN s[1]
    ELSE LET m == SeqMax(Tail(s)) IN IF s[1] >= m THEN s[1] ELSE m

Ok(v) == [status |-> "ok", value |-> v]
Raise(e) == [status |-> e, value |-> <<>>]

-----------------------------------------------------------------------------
(* numpy primitives used by the code *)

\* np.concatenate((x, y)): a new array holding x followed by y
concatenate(x, y) == x \o y

RECURSIVE InsertSorted(_, _)
InsertSorted(x, s) ==
    IF s = <<>> THEN <<x>>
    ELSE IF x <= Head(s) THEN <<x>> \o s
    ELSE <<Head(s)>> \o InsertSorted(x, Tail(s))

\* the contents of an array after ndarray.sort(): ascending order
sort_identity(s) == s
RECURSIVE sort(_)
sort(s) == IF s = <<>> THEN <<>> ELSE InsertSorted(Head(s), sort(Tail(s)))

\* s[mask] with a boolean mask of the same length
RECURSIVE BoolIndex(_, _)
BoolIndex(s, mask) ==
    IF s = <<>> THEN <<>>
    ELSE (IF Head(mask) THEN <<Head(s)>> ELSE <<>>)
         \o BoolIndex(Tail(s), Tail(mask))

\* aux[1:] == aux[:-1], element-wise
AdjacentEqual(aux) ==
    IF Len(aux) = 0 THEN <<>>
    ELSE [k \in 1..(Len(aux) - 1) |-> aux[k + 1] = aux[k]]

\* aux[:-1]
AllButLast(aux) ==
    IF Len(aux) = 0 THEN <<>> ELSE SubSeq(aux, 1, Len(aux) - 1)

\* np.isin(x, y, assume_unique=True): element-wise membership of x in y
\* (for arrays of the explored sizes numpy compares element by element, so
\* the result is plain membership whether or not the arrays hold duplicates)
isin(x, y) == [k \in 1..Len(x) |-> \E j \in 1..Len(y) : y[j] = x[k]]

logical_not_identity(mask) == mask
logical_not(mask) == [k \in 1..Len(mask) |-> ~mask[k]]

-----------------------------------------------------------------------------
(* fast_intersect *)

\* The arrays fast_intersect can touch: its arguments and its local aux.
\* Lines 27-28: aux is a fresh concatenation, and the in-place sort acts on it.
fast_intersect_mem_sorts_args(m) ==
    LET m1 == [m EXCEPT !.a = sort(m.a), !.b = sort(m.b)]
    IN  [m1 EXCEPT !.aux = sort(concatenate(m1.a, m1.b))]
fast_intersect_mem(m) ==
    LET m1 == [m EXCEPT !.aux = concatenate(m.a, m.b)]
    IN  [m1 EXCEPT !.aux = sort(m1.aux)]

\* Lines 29-30: keep every element equal to its successor
fast_intersect_ret(m) == BoolIndex(AllButLast(m.aux), AdjacentEqual(m.aux))

fast_intersect(x, y) ==
    fast_intersect_ret(fast_intersect_mem([a |-> x, b |-> y, aux |-> <<>>]))

-----------------------------------------------------------------------------
(* fast_setdiff *)

fast_setdiff(x, y) == BoolIndex(x, logical_not(isin(x, y)))

-----------------------------------------------------------------------------
(* integer2baseb *)

\* np.log(x) of an integer x in double precision, by case:
\* nan for x < 0, -inf for x = 0, 0.0 for x = 1, a positive float for x > 1.
LogClass(x) ==
    IF x < 0 THEN "nan"
    ELSE IF x = 0 THEN "-inf"
    ELSE IF x = 1 THEN "zero" ELSE "pos"

\* least e >= k with bb^e >= n, for bb >= 2 and n >= 1: ceil(log_bb(n)) exactly
RECURSIVE CeilLogFrom(_, _, _)
CeilLogFrom(n, bb, k) == IF Pow(bb, k) >= n THEN k ELSE CeilLogFrom(n, bb, k + 1)

\* The pairs <<bb, n>>, bb in 2..7 and n in 2..999, at which the IEEE-754
\* double quotient log(n) / log(bb) lies just above the exact integer
\* log_bb(n), so that its ceiling is one more than the exact ceiling:
\* log(125) / log(5) and log(216) / log(6) both evaluate to
\* 3.0000000000000004, whose ceiling is 4.  Everywhere else in that range
\* the ceiling of the double quotient is the exact ceiling.
QuotientAboveInteger == {<<5, 125>>, <<6, 216>>}

\* np.ceil(np.log(n) / np.log(bb)) in double precision:
\* [kind |-> "nan" | "inf" | "-inf" | "fin", val |-> the value when finite]
CeilLogRatio(n, bb) ==
    LET num == LogClass(n)
        den == LogClass(bb)
        Float(k, v) == [kind |-> k, val |-> v]
    IN  IF num = "nan" \/ den = "nan" THEN Float("nan", 0)
        ELSE IF den = "zero"
             THEN IF num = "zero" THEN Float("nan", 0)
                  ELSE IF num = "pos" THEN Float("inf", 0)
                  ELSE Float("-inf", 0)
        ELSE IF den = "-inf"
             THEN IF num = "-inf" THEN Float("nan", 0) ELSE Float("fin", 0)
        ELSE IF num = "-inf" THEN Float("-inf", 0)
        ELSE IF num = "zero" THEN Float("fin", 0)
        ELSE Float("fin", CeilLogFrom(n, bb, 0)
                          + (IF <<bb, n>> \in QuotientAboveInteger THEN 1 ELSE 0))

\* Line 59: d = int(np.ceil(np.log(np.max(i) + 1) / np.log(b)));
\* int() of nan raises ValueError, int() of an infinity raises OverflowError.
DerivedDim(ii, bb) ==
    LET q == CeilLogRatio(SeqMax(ii) + 1, bb)
    IN  IF q.kind = "nan" THEN Raise("ValueError")
        ELSE IF q.kind \in {"inf", "-inf"} THEN Raise("OverflowError")
        ELSE Ok(q.val)

\* np.unravel_index(indices, np.full(dd, bb), order="F"): dd coordinate
\* arrays, the first axis varying fastest.  ValueError for an empty shape
\* with an array of indices, and for an index outside 0..bb^dd - 1.
unravel_index_order_C(indices, dd, bb) ==
    IF dd = 0 THEN Raise("ValueError")
    ELSE IF \E k \in 1..Len(indices) :
                indices[k] < 0 \/ indices[k] >= Pow(bb, dd)
         THEN Raise("ValueError")
    ELSE Ok([j \in 1..dd |->
              [k \in 1..Len(indices) |-> (indices[k] \div Pow(bb, dd - j)) % bb]])
unravel_index_wraps(indices, dd, bb) ==
    IF dd = 0 \/ bb = 0 THEN Raise("ValueError")
    ELSE Ok([j \in 1..dd |->
              [k \in 1..Len(indices) |-> (indices[k] \div Pow(bb, j - 1)) % bb]])
unravel_index(indices, dd, bb) ==
    IF dd = 0 THEN Raise("ValueError")
    ELSE IF \E k \in 1..Len(indices) :
                indices[k] < 0 \/ indices[k] >= Pow(bb, dd)
         THEN Raise("ValueError")
    ELSE Ok([j \in 1..dd |->
              [k \in 1..Len(indices) |-> (indices[k] \div Pow(bb, j - 1)) % bb]])

\* np.transpose of a non-empty two-dimensional array
transpose(M) == [k \in 1..Len(M[1]) |-> [j \in 1..Len(M) |-> M[j][k]]]

\* np.fliplr: every row reversed
fliplr_identity(M) == M
fliplr(M) ==
    [r \in 1..Len(M) |-> [j \in 1..Len(M[r]) |-> M[r][Len(M[r]) + 1 - j]]]

\* Lines 58-62
integer2baseb(ii, bb, dd) ==
    LET dim == IF dd = None THEN DerivedDim(ii, bb) ELSE Ok(dd[1])
    IN  IF dim.status # "ok" THEN dim
        ELSE LET coords == unravel_index(ii, dim.value, bb)
             IN  IF coords.status # "ok" THEN coords
                 ELSE Ok(fliplr(transpose(coords.value)))

-----------------------------------------------------------------------------
(* baseb2integer *)

\* np.ravel_multi_index(coords, np.full(dd, bb), order="F") with the default
\* mode="raise": ValueError for a coordinate outside 0..bb - 1, else the
\* flat index with the first axis varying fastest.
RECURSIVE FlatIndex(_, _, _, _)
FlatIndex(coords, k, j, bb) ==
    IF j > Len(coords) THEN 0
    ELSE coords[j][k] * Pow(bb, j - 1) + FlatIndex(coords, k, j + 1, bb)

ravel_multi_index_unchecked(coords, bb) ==
    Ok([k \in 1..Len(coords[1]) |-> FlatIndex(coords, k, 1, bb)])
ravel_multi_index(coords, bb) ==
    IF \E j \in 1..Len(coords) : \E k \in 1..Len(coords[j]) :
           coords[j][k] < 0 \/ coords[j][k] >= bb
    THEN Raise("ValueError")
    ELSE Ok([k \in 1..Len(coords[1]) |-> FlatIndex(coords, k, 1, bb)])

\* The arrays baseb2integer can touch: its argument I0 and its local values.
\* Lines 83-86: atleast_2d, fliplr and transpose give views bound to the
\* local name; nothing is written through them.
baseb2integer_mem(m) ==
    LET m1 == [m EXCEPT !.values = m.I0]
        m2 == [m1 EXCEPT !.values = fliplr(m1.values)]
    IN  [m2 EXCEPT !.values = transpose(m2.values)]

\* Line 87
baseb2integer_ret(m, bb) == ravel_multi_index(m.values, bb)

baseb2integer(M, bb) ==
    baseb2integer_ret(baseb2integer_mem([I0 |-> M, values |-> <<>>]), bb)

-----------------------------------------------------------------------------
(* The state machine: a caller holding argument arrays and calling *)

Shapes == {s \in (1..MaxCells) \X (1..MaxCells) : s[1] * s[2] <= MaxCells}

\* digit matrices for base bb: digits in range, and -1 and bb out of range
Matrices(bb) == UNION {[1..s[1] -> [1..s[2] -> -1..bb]] : s \in Shapes}

Dims == {None} \cup {<<k>> : k \in 1..MaxDim}

Untouched ==
    /\ op = "init"
    /\ out = Ok(<<>>)

InitSets ==
    /\ a \in SeqsUpTo(0..MaxElem, MaxLen)
    /\ b \in SeqsUpTo(0..MaxElem, MaxLen)
    /\ i = <<0>> /\ base = 2 /\ d = <<1>> /\ I0 = <<<<0>>>>
    /\ Untouched

InitEncode ==
    /\ i \in SeqsUpTo(-1..MaxInt, MaxK) \ {<<>>}
    /\ base \in 0..MaxBase
    /\ d \in Dims
    /\ a = <<>> /\ b = <<>> /\ I0 = <<<<0>>>>
    /\ Untouched

InitDecode ==
    /\ base \in 0..MaxBase
    /\ I0 \in Matrices(base)
    /\ a = <<>> /\ b = <<>> /\ i = <<0>> /\ d = <<1>>
    /\ Untouched

Init == InitSets \/ InitEncode \/ InitDecode

FastIntersect ==
    LET m == fast_intersect_mem([a |-> a, b |-> b, aux |-> <<>>])
    IN  /\ a' = m.a
        /\ b' = m.b
        /\ out' = Ok(fast_intersect_ret(m))
        /\ op' = "fast_intersect"
        /\ UNCHANGED <<i, base, d, I0>>

FastSetdiff ==
    /\ out' = Ok(fast_setdiff(a, b))
    /\ op' = "fast_setdiff"
    /\ UNCHANGED <<a, b, i, base, d, I0>>

Integer2baseb ==
    /\ out' = integer2baseb(i, base, d)
    /\ op' = "integer2baseb"
    /\ UNCHANGED <<a, b, i, base, d, I0>>

Baseb2integer ==
    LET m == baseb2integer_mem([I0 |-> I0, values |-> <<>>])
    IN  /\ I0' = m.I0
        /\ out' = baseb2integer_ret(m, base)
        /\ op' = "baseb2integer"
        /\ UNCHANGED <<a, b, i, base, d>>

Next == FastIntersect \/ FastSetdiff \/ Integer2baseb \/ Baseb2integer

Spec == Init /\ [][Next]_vars

\* Exploration of the derived dimension: d omitted, valid bases, non-negative
\* integers up to MaxLogInt.
InitLog ==
    /\ \E n \in 0..MaxLogInt :
           i \in {<<n>>} \cup {<<m, n>> : m \in 0..MaxInt}
    /\ base \in 2..MaxLogBase
    /\ d = None
    /\ a = <<>> /\ b = <<>> /\ I0 = <<<<0>>>>
    /\ Untouched

NextLog == Integer2baseb

SpecLog == InitLog /\ [][NextLog]_vars

-----------------------------------------------------------------------------
(* Vocabulary of the properties *)

\* every integer of ii lies in [0, bb^dd - 1]
InRange(ii, bb, dd) == \A k \in 1..Len(ii) : ii[k] >= 0 /\ ii[k] < Pow(bb, dd)

StrictlyAscending(s) == \A k \in 1..(Len(s) - 1) : s[k] < s[k + 1]

\* sum over j = 1..Len(row) of row[j] * bb^(Len(row) - j)
RECURSIVE PositionalValue(_, _)
PositionalValue(row, bb) ==
    IF row = <<>> THEN 0
    ELSE PositionalValue(SubSeq(row, 1, Len(row) - 1), bb) * bb + row[Len(row)]

\* the elements of x not occurring in y, in x's order
RECURSIVE Without(_, _)
Without(x, y) ==
    IF x = <<>> THEN <<>>
    ELSE (IF \E j \in 1..Len(y) : y[j] = Head(x) THEN <<>> ELSE <<Head(x)>>)
         \o Without(Tail(x), y)

EncodedExplicit == op = "integer2baseb" /\ d # None

EncodedDerived == op = "integer2baseb" /\ d = None

-----------------------------------------------------------------------------
(* Properties *)

\* C1: round trip.  For b >= 2, explicit d >= 1 and integers all in
\* [0, b^d - 1], integer2baseb succeeds and baseb2integer of its digit matrix,
\* with the same b, is the input sequence itself, in order.
RoundTripExplicitDim ==
    (EncodedExplicit /\ base >= 2 /\ InRange(i, base, d[1]))
        => /\ out.status = "ok"
           /\ baseb2integer(out.value, base) = Ok(i)

RoundTripReached ==
    /\ EncodedExplicit /\ base >= 2 /\ InRange(i, base, d[1])
    /\ Len(i) = 2 /\ i[1] > i[2] /\ d[1] = 2 /\ i[1] >= base
    /\ baseb2integer(out.value, base) = Ok(i)

\* C2: for duplicate-free a and b, fast_intersect returns exactly the values
\* occurring in both, each once, in strictly ascending order; it is empty when
\* an input is empty or nothing is shared.
IntersectCorrect ==
    (op = "fast_intersect" /\ NoDup(a) /\ NoDup(b))
        => /\ out.status = "ok"
           /\ Range(out.value) = Range(a) \cap Range(b)
           /\ StrictlyAscending(out.value)
           /\ (a = <<>> \/ b = <<>> \/ Range(a) \cap Range(b) = {}
                  => out.value = <<>>)

IntersectReached ==
    /\ op = "fast_intersect" /\ NoDup(a) /\ NoDup(b)
    /\ ~StrictlyAscending(a)
    /\ Len(out.value) >= 2
    /\ Range(a) \ Range(b) # {}

\* C3: for duplicate-free a and b, fast_setdiff returns exactly the elements
\* of a not occurring in b, in a's order; it is no longer than a, empty for
\* empty a, and a itself for empty b.
SetdiffCorrect ==
    (op = "fast_setdiff" /\ NoDup(a) /\ NoDup(b))
        => /\ out.status = "ok"
           /\ out.value = Without(a, b)
           /\ Len(out.value) <= Len(a)
           /\ (a = <<>> => out.value = <<>>)
           /\ (b = <<>> => out.value = a)

SetdiffReached ==
    /\ op = "fast_setdiff" /\ NoDup(a) /\ NoDup(b)
    /\ Len(out.value) >= 2
    /\ ~StrictlyAscending(out.value)
    /\ Len(out.value) < Len(a)

\* C4: for b >= 2, explicit d >= 1 and K integers all in [0, b^d - 1],
\* integer2baseb returns a K-by-d matrix; row k holds digits in [0, b - 1]
\* whose positional value, most significant first, is i_k; b^d - 1 gives a
\* row of (b - 1)s and 0 a row of zeros.
DigitsCorrect ==
    (EncodedExplicit /\ base >= 2 /\ InRange(i, base, d[1]))
        => /\ out.status = "ok"
           /\ Len(out.value) = Len(i)
           /\ \A k \in 1..Len(i) :
                LET row == out.value[k]
                IN  /\ Len(row) = d[1]
                    /\ \A j \in 1..Len(row) : row[j] \in 0..(base - 1)
                    /\ PositionalValue(row, base) = i[k]
                    /\ (i[k] = Pow(base, d[1]) - 1
                          => \A j \in 1..Len(row) : row[j] = base - 1)
                    /\ (i[k] = 0 => \A j \in 1..Len(row) : row[j] = 0)

DigitsReached ==
    /\ EncodedExplicit /\ base = 3 /\ d[1] = 2
    /\ i = <<Pow(base, d[1]) - 1, 5>>
    /\ out = Ok(<<<<2, 2>>, <<1, 2>>>>)

\* C5: with an explicit d, an integer >= b^d anywhere in the input makes the
\* whole call fail with a range error (ValueError); no digit matrix comes back.
OutOfRangeIntegerRejected ==
    (EncodedExplicit /\ \E k \in 1..Len(i) : i[k] >= Pow(base, d[1]))
        => out = Raise("ValueError")

OutOfRangeIntegerReached ==
    /\ EncodedExplicit /\ base >= 2 /\ Len(i) = 2
    /\ i[1] >= 0 /\ i[1] < Pow(base, d[1])
    /\ i[2] = Pow(base, d[1])
    /\ out = Raise("ValueError")

\* C6: a digit outside [0, b - 1] anywhere in the matrix makes baseb2integer
\* fail with a range error (ValueError); no integers come back.
OutOfRangeDigitRejected ==
    (op = "baseb2integer"
       /\ \E r \in 1..Len(I0) : \E j \in 1..Len(I0[r]) :
             I0[r][j] < 0 \/ I0[r][j] >= base)
        => out = Raise("ValueError")

OutOfRangeDigitReached ==
    /\ op = "baseb2integer" /\ base >= 2 /\ Len(I0) = 2 /\ Len(I0[1]) = 2
    /\ \A j \in 1..2 : I0[1][j] \in 0..(base - 1)
    /\ I0[2][1] = base /\ I0[2][2] = 0
    /\ out = Raise("ValueError")

\* C7: with d omitted (b >= 2, non-negative integers), the derived d is the
\* minimum with b^d > max(i): never undersized, never oversized; and
\* integer2baseb([5], 2) is the single row [1, 0, 1].
DerivedDimMinimal ==
    (EncodedDerived /\ base >= 2 /\ \A k \in 1..Len(i) : i[k] >= 0)
        => LET dim == DerivedDim(i, base)
           IN  /\ dim.status = "ok"
               /\ Pow(base, dim.value) > SeqMax(i)
               /\ (dim.value >= 1 => Pow(base, dim.value - 1) <= SeqMax(i))
               /\ (i = <<5>> /\ base = 2 => out = Ok(<<<<1, 0, 1>>>>))

\* C8: with d omitted, b >= 2 and non-negative integers (a maximum of 0
\* included), integer2baseb succeeds with a K-by-d matrix, d >= 1, that
\* baseb2integer turns back into the input.
DerivedDimSucceeds ==
    (EncodedDerived /\ base >= 2 /\ \A k \in 1..Len(i) : i[k] >= 0)
        => /\ out.status = "ok"
           /\ Len(out.value) = Len(i)
           /\ \A k \in 1..Len(i) : Len(out.value[k]) >= 1
           /\ baseb2integer(out.value, base) = Ok(i)

\* C9: a base below 2, or a negative integer in the input, makes integer2baseb
\* fail; no such call returns a digit matrix.
DegenerateInputRejected ==
    (op = "integer2baseb" /\ (base < 2 \/ \E k \in 1..Len(i) : i[k] < 0))
        => out.status # "ok"

\* C10: no call changes the caller's arguments: the arrays a, b, i and I0 and
\* the scalars base and d are after every call what they were before it.
ArgumentsUnchanged ==
    [][a' = a /\ b' = b /\ i' = i /\ I0' = I0 /\ base' = base /\ d' = d]_vars

ArgumentsUnchangedReached ==
    /\ op = "fast_intersect"
    /\ ~StrictlyAscending(a) /\ Len(a) >= 2
    /\ ~StrictlyAscending(b) /\ Len(b) >= 2
    /\ Len(out.value) >= 1

====
